---------------------------- MODULE Spec2Model ----------------------------
(***************************************************************************)
(* zscilib vector layer (vectors.c), built with CONFIG_ZSL_BOUNDS_CHECKS.  *)
(*                                                                         *)
(* The caller owns three vector objects.  A vector is the C struct zsl_vec *)
(* (sz, data) together with the ghost field cap, the number of slots of    *)
(* the buffer data points to.  C index i is data[i + 1] here.              *)
(* zsl_real_t is modelled by exact rationals <<num, den>> in lowest terms  *)
(* with den > 0, so + - * / are computed, not assumed.  size_t is an       *)
(* unsigned integer of SizeBits bits.                                      *)
(*                                                                         *)
(* Every library function is an operator from the caller's memory (the     *)
(* pool of vectors) and the arguments to an outcome record                 *)
(*   rc      the int returned                                              *)
(*   vecs    the pool after the call                                       *)
(*   d       (scalar outputs only) the value of *d after the call          *)
(*   fault   some access fell outside a buffer (undefined behaviour)       *)
(*   beyond  some access had an index >= the vector's declared length      *)
(*   div     a division was executed                                       *)
(* and one action per function applies it to the state.                    *)
(*                                                                         *)
(* The matrix layer (matrices.h) is modelled from its documented           *)
(* contract: the caller also owns three matrices, the C struct zsl_mtx     *)
(* (sz_rows, sz_cols, data) over a row-major buffer of sz_rows * sz_cols   *)
(* slots; element (i, j) is data[i * sz_cols + j + 1] here.                *)
(***************************************************************************)
EXTENDS Integers, Naturals, Sequences, FiniteSets, TLC

VARIABLES vecs, pre, dval, dpre, last, fault, mtxs, mpre, idx
vars == <<vecs, pre, dval, dpre, last, fault, mtxs, mpre, idx>>

---------------------------------------------------------------------------
(* Bounds of the model. *)
MaxCap == 3
MaxVal == 2
SizeBits == 3
MaxN == 2
MaxDim == 2

(* errno.h EINVAL *)
EINVAL == 22

SizeMod == 2 ^ SizeBits
SIZE_MAX == SizeMod - 1
VecIds == 1 .. 3
MtxIds == 1 .. 3

---------------------------------------------------------------------------
(* zsl_real_t as exact rationals. *)
Abs(a) == IF a < 0 THEN -a ELSE a

RECURSIVE GCD(_, _)
GCD(a, b) == IF b = 0 THEN a ELSE GCD(b, a % b)

Rat(n, d) ==
    LET g == GCD(Abs(n), Abs(d))
        s == IF d < 0 THEN -1 ELSE 1
    IN  <<(s * n) \div g, (s * d) \div g>>

R(n) == <<n, 1>>
RAdd(a, b) == Rat(a[1] * b[2] + b[1] * a[2], a[2] * b[2])
RSub(a, b) == Rat(a[1] * b[2] - b[1] * a[2], a[2] * b[2])
RMul(a, b) == Rat(a[1] * b[1], a[2] * b[2])
RNeg(a) == <<-a[1], a[2]>>
RLt(a, b) == a[1] * b[2] < b[1] * a[2]
(* a / b for b # 0 *)
RDiv(a, b) == Rat(a[1] * b[2], a[2] * b[1])

IsSq(n) == \E r \in 0 .. n : r * r = n
ISqrt(n) == CHOOSE r \in 0 .. n : r * r = n
(* sqrt() is exact on the rationals whose numerator and denominator are   *)
(* perfect squares; the harness calls it on no other argument.            *)
HasSqrt(a) == a[1] >= 0 /\ IsSq(a[1]) /\ IsSq(a[2])
RSqrt(a) == <<ISqrt(a[1]), ISqrt(a[2])>>

---------------------------------------------------------------------------
(* Element access.  An access outside the buffer is undefined behaviour:   *)
(* the call's outcome is flagged fault, a write outside is not recorded    *)
(* and a read outside yields Junk; no property reads the elements of a     *)
(* faulted outcome.                                                         *)
Junk == R(0)
Get(P, v, i) == IF i < P[v].cap THEN P[v].data[i + 1] ELSE Junk
Put(P, v, i, val) ==
    IF i < P[v].cap THEN [P EXCEPT ![v].data[i + 1] = val] ELSE P

Ret(rc, P, flt, byd, dv) ==
    [rc |-> rc, vecs |-> P, fault |-> flt, beyond |-> byd, div |-> dv]
RetD(rc, P, d, flt, byd, dv) ==
    [rc |-> rc, vecs |-> P, d |-> d, fault |-> flt, beyond |-> byd, div |-> dv]
(* a function that returns a zsl_real_t: val; NaN is the C macro NAN *)
NaN == <<0, 0>>
RetV(val, P, flt, byd, dv) ==
    [rc |-> 0, val |-> val, vecs |-> P, fault |-> flt, beyond |-> byd,
     div |-> dv]
(* a function that returns a bool: rc is 1 for true, 0 for false *)
RetB(b, P, flt) ==
    [rc |-> IF b THEN 1 ELSE 0, vecs |-> P, fault |-> flt, beyond |-> FALSE,
     div |-> FALSE]

---------------------------------------------------------------------------
(* memset(v->data, 0, v->sz * sizeof(zsl_real_t)) *)
zsl_vec_init(P, v) ==
    Ret(0,
        [P EXCEPT ![v].data =
            [i \in 1 .. P[v].cap |-> IF i <= P[v].sz THEN R(0) ELSE @[i]]],
        P[v].sz > P[v].cap, FALSE, FALSE)

(* memcpy(v->data, a, v->sz * sizeof(zsl_real_t)); a is the caller's array *)
zsl_vec_from_arr(P, v, a) ==
    Ret(0,
        [P EXCEPT ![v].data =
            [i \in 1 .. P[v].cap |->
                IF i <= P[v].sz /\ i <= Len(a) THEN a[i] ELSE @[i]]],
        P[v].sz > P[v].cap \/ P[v].sz > Len(a), FALSE, FALSE)

(* memcpy(vsub->data, &v->data[offset], len * sizeof(zsl_real_t)) *)
SubsetCopy(P, v, offset, len, vsub) ==
    [P EXCEPT ![vsub].data =
        [i \in 1 .. P[vsub].cap |->
            IF i <= len THEN Get(P, v, offset + i - 1) ELSE @[i]]]

SubsetTruncLen(P, v, offset, len) ==
    IF (offset + len) % SizeMod >= P[v].sz THEN P[v].sz - offset ELSE len

zsl_vec_get_subset(P, v, offset, len, vsub) ==
    IF offset >= P[v].sz THEN Ret(-EINVAL, P, FALSE, FALSE, FALSE)
    ELSE
      LET len1 == SubsetTruncLen(P, v, offset, len)
      IN  IF P[vsub].sz < len1 THEN Ret(-EINVAL, P, FALSE, FALSE, FALSE)
          ELSE
            LET P1 == IF P[vsub].sz > len1
                      THEN [P EXCEPT ![vsub].sz = len1] ELSE P
            IN  Ret(0, SubsetCopy(P1, v, offset, len1, vsub),
                    offset + len1 > P[v].cap \/ len1 > P[vsub].cap,
                    offset + len1 > P[v].sz \/ len1 > P1[vsub].sz,
                    FALSE)

RECURSIVE AddLoop(_, _, _, _, _)
AddLoop(P, v, w, x, i) ==
    IF i < P[v].sz
    THEN AddLoop(Put(P, x, i, RAdd(Get(P, v, i), Get(P, w, i))), v, w, x, i + 1)
    ELSE P

(* mutant: the output's length is not compared *)
AddSizesDiffer_NoOutCheck(P, v, w, x) == P[v].sz # P[w].sz

AddSizesDiffer(P, v, w, x) == (P[v].sz # P[w].sz) \/ (P[v].sz # P[x].sz)

zsl_vec_add(P, v, w, x) ==
    IF AddSizesDiffer(P, v, w, x) THEN Ret(-EINVAL, P, FALSE, FALSE, FALSE)
    ELSE Ret(0, AddLoop(P, v, w, x, 0),
             P[v].sz > P[v].cap \/ P[v].sz > P[w].cap \/ P[v].sz > P[x].cap,
             FALSE, FALSE)

(* mutant: the operands of the subtraction swapped *)
RECURSIVE SubLoop_Swapped(_, _, _, _, _)
SubLoop_Swapped(P, v, w, x, i) ==
    IF i < P[v].sz
    THEN SubLoop_Swapped(Put(P, x, i, RSub(Get(P, w, i), Get(P, v, i))),
                         v, w, x, i + 1)
    ELSE P

RECURSIVE SubLoop(_, _, _, _, _)
SubLoop(P, v, w, x, i) ==
    IF i < P[v].sz
    THEN SubLoop(Put(P, x, i, RSub(Get(P, v, i), Get(P, w, i))), v, w, x, i + 1)
    ELSE P

zsl_vec_sub(P, v, w, x) ==
    IF (P[v].sz # P[w].sz) \/ (P[v].sz # P[x].sz)
    THEN Ret(-EINVAL, P, FALSE, FALSE, FALSE)
    ELSE Ret(0, SubLoop(P, v, w, x, 0),
             P[v].sz > P[v].cap \/ P[v].sz > P[w].cap \/ P[v].sz > P[x].cap,
             FALSE, FALSE)

RECURSIVE NegLoop(_, _, _)
NegLoop(P, v, i) ==
    IF i < P[v].sz THEN NegLoop(Put(P, v, i, RNeg(Get(P, v, i))), v, i + 1)
    ELSE P

zsl_vec_neg(P, v) ==
    Ret(0, NegLoop(P, v, 0), P[v].sz > P[v].cap, FALSE, FALSE)

(* for (j = 0; j < w->sz; j++) w->data[j] += v[i]->data[j]; *)
RECURSIVE SumInner(_, _, _, _)
SumInner(P, vi, w, j) ==
    IF j < P[w].sz
    THEN SumInner(Put(P, w, j, RAdd(Get(P, w, j), Get(P, vi, j))), vi, w, j + 1)
    ELSE P

(* for (i = 0; i < n; i++) ...; vs is the array v, C index i is vs[i + 1] *)
RECURSIVE SumOuter(_, _, _, _, _)
SumOuter(P, vs, n, w, i) ==
    IF i < n THEN SumOuter(SumInner(P, vs[i + 1], w, 0), vs, n, w, i + 1)
    ELSE P

(* w->sz = sz_last; then the two loops *)
SumBody(P, vs, n, w, sz_last) ==
    SumOuter([P EXCEPT ![w].sz = sz_last], vs, n, w, 0)

(* sz_last is an int; every length of the model fits in it *)
zsl_vec_sum(P, vs, n, w) ==
    IF n = 0 THEN Ret(-EINVAL, P, FALSE, FALSE, FALSE)
    ELSE
      LET sz_last == P[vs[1]].sz
      IN  IF \E i \in 1 .. n : sz_last # P[vs[i]].sz
          THEN Ret(-EINVAL, P, FALSE, FALSE, FALSE)
          ELSE Ret(0, SumBody(P, vs, n, w, sz_last),
                   sz_last > P[w].cap \/ \E i \in 1 .. n : sz_last > P[vs[i]].cap,
                   FALSE, FALSE)

RECURSIVE ScalarAddLoop(_, _, _, _)
ScalarAddLoop(P, v, s, i) ==
    IF i < P[v].sz
    THEN ScalarAddLoop(Put(P, v, i, RAdd(Get(P, v, i), s)), v, s, i + 1)
    ELSE P

zsl_vec_scalar_add(P, v, s) ==
    Ret(0, ScalarAddLoop(P, v, s, 0), P[v].sz > P[v].cap, FALSE, FALSE)

RECURSIVE ScalarMultLoop(_, _, _, _)
ScalarMultLoop(P, v, s, i) ==
    IF i < P[v].sz
    THEN ScalarMultLoop(Put(P, v, i, RMul(Get(P, v, i), s)), v, s, i + 1)
    ELSE P

zsl_vec_scalar_mult(P, v, s) ==
    Ret(0, ScalarMultLoop(P, v, s, 0), P[v].sz > P[v].cap, FALSE, FALSE)

(* mutant: multiplies where it should divide *)
ScalarDivLoop_Mult(P, v, s, i) == ScalarMultLoop(P, v, s, i)

RECURSIVE ScalarDivLoop(_, _, _, _)
ScalarDivLoop(P, v, s, i) ==
    IF i < P[v].sz
    THEN ScalarDivLoop(Put(P, v, i, RDiv(Get(P, v, i), s)), v, s, i + 1)
    ELSE P

zsl_vec_scalar_div(P, v, s) ==
    IF s = R(0) THEN Ret(-EINVAL, P, FALSE, FALSE, FALSE)
    ELSE Ret(0, ScalarDivLoop(P, v, s, 0), P[v].sz > P[v].cap, FALSE,
             P[v].sz > 0)

(* res += v->data[i] * w->data[i] *)
RECURSIVE DotLoop(_, _, _, _, _)
DotLoop(P, v, w, i, res) ==
    IF i < P[v].sz
    THEN DotLoop(P, v, w, i + 1, RAdd(res, RMul(Get(P, v, i), Get(P, w, i))))
    ELSE res

zsl_vec_dot(P, v, w, d) ==
    IF P[v].sz # P[w].sz THEN RetD(-EINVAL, P, d, FALSE, FALSE, FALSE)
    ELSE RetD(0, P, DotLoop(P, v, w, 0, R(0)),
              P[v].sz > P[v].cap \/ P[v].sz > P[w].cap, FALSE, FALSE)

(* sum += v->data[i] * v->data[i]; the value handed to sqrt() *)
RECURSIVE NormSumLoop(_, _, _, _)
NormSumLoop(P, v, i, sum) ==
    IF i < P[v].sz
    THEN NormSumLoop(P, v, i + 1, RAdd(sum, RMul(Get(P, v, i), Get(P, v, i))))
    ELSE sum

zsl_vec_norm(P, v) == RSqrt(NormSumLoop(P, v, 0, R(0)))

(* mutant: the fallback clears the vector and sets no element to 1 *)
ToUnitFallback_NoOne(P, v) == zsl_vec_init(P, v).vecs

(* the else branch: zsl_vec_init(v); v->data[0] = 1.0; *)
ToUnitFallback(P, v) == Put(zsl_vec_init(P, v).vecs, v, 0, R(1))

zsl_vec_to_unit(P, v) ==
    LET mag == zsl_vec_norm(P, v)
    IN  IF mag # R(0)
        THEN Ret(0, zsl_vec_scalar_mult(P, v, RDiv(R(1), mag)).vecs,
                 P[v].sz > P[v].cap, FALSE, TRUE)
        ELSE Ret(0, ToUnitFallback(P, v),
                 P[v].sz > P[v].cap \/ P[v].cap = 0, P[v].sz = 0, FALSE)

(* mutant: a sign slip in the second component *)
CrossBody_SignSlip(P, v, w, c) ==
    LET P1 == Put(P, c, 0, RSub(RMul(Get(P, v, 1), Get(P, w, 2)),
                                RMul(Get(P, v, 2), Get(P, w, 1))))
        P2 == Put(P1, c, 1, RAdd(RMul(Get(P1, v, 2), Get(P1, w, 0)),
                                 RMul(Get(P1, v, 0), Get(P1, w, 2))))
    IN  Put(P2, c, 2, RSub(RMul(Get(P2, v, 0), Get(P2, w, 1)),
                           RMul(Get(P2, v, 1), Get(P2, w, 0))))

(* the three assignments, in order *)
CrossBody(P, v, w, c) ==
    LET P1 == Put(P, c, 0, RSub(RMul(Get(P, v, 1), Get(P, w, 2)),
                                RMul(Get(P, v, 2), Get(P, w, 1))))
        P2 == Put(P1, c, 1, RSub(RMul(Get(P1, v, 2), Get(P1, w, 0)),
                                 RMul(Get(P1, v, 0), Get(P1, w, 2))))
    IN  Put(P2, c, 2, RSub(RMul(Get(P2, v, 0), Get(P2, w, 1)),
                           RMul(Get(P2, v, 1), Get(P2, w, 0))))

(* mutant: the lengths are compared with each other, not with 3 *)
CrossNot3_EqualOnly(P, v, w, c) == (P[v].sz # P[w].sz) \/ (P[v].sz # P[c].sz)

CrossNot3(P, v, w, c) == (P[v].sz # 3) \/ (P[w].sz # 3) \/ (P[c].sz # 3)

zsl_vec_cross(P, v, w, c) ==
    IF CrossNot3(P, v, w, c) THEN Ret(-EINVAL, P, FALSE, FALSE, FALSE)
    ELSE Ret(0, CrossBody(P, v, w, c),
             P[v].cap < 3 \/ P[w].cap < 3 \/ P[c].cap < 3, FALSE, FALSE)

(* 1/n: both operands are size_t, an integer division *)
MeanScale(n) == R(1 \div n)

zsl_vec_mean(P, vs, n, m) ==
    IF n = 0
    THEN (* v[0] is read from an array of no elements: whatever it yields,    *)
         (* the size test or zsl_vec_sum's test of n rejects the call.       *)
         Ret(-EINVAL, P, TRUE, TRUE, FALSE)
    ELSE IF P[m].sz # P[vs[1]].sz THEN Ret(-EINVAL, P, FALSE, FALSE, FALSE)
    ELSE
      LET r == zsl_vec_sum(P, vs, n, m)
      IN  IF r.rc # 0 THEN Ret(r.rc, r.vecs, r.fault, r.beyond, FALSE)
          ELSE Ret(0, zsl_vec_scalar_mult(r.vecs, m, MeanScale(n)).vecs,
                   r.fault, r.beyond, TRUE)

(* zsl_vec_dot(v, v, &dot) with dot = 0.0 before; return dot *)
zsl_vec_sum_of_sqrs(P, v) ==
    LET r == zsl_vec_dot(P, v, v, R(0))
    IN  RetV(r.d, P, r.fault, r.beyond, FALSE)

(* sqrt(zsl_vec_sum_of_sqrs(v)) *)
zsl_vec_magn(P, v) ==
    LET r == zsl_vec_sum_of_sqrs(P, v)
    IN  RetV(RSqrt(r.val), P, r.fault, r.beyond, FALSE)

(* the pool with the local x of zsl_vec_dist as vector 0: xdat[v->sz],     *)
(* zeroed by memset.  For v->sz = 0 this is the empty array gcc and clang  *)
(* make of a variable-length array of no elements.                         *)
DistLocal(P, v) ==
    [id \in DOMAIN P \cup {0} |->
        IF id = 0 THEN [sz |-> P[v].sz, cap |-> P[v].sz,
                        data |-> [i \in 1 .. P[v].sz |-> R(0)]]
        ELSE P[id]]

DistSub_IntoV(P, v, w) == zsl_vec_sub(DistLocal(P, v), v, w, v)

(* rc = zsl_vec_sub(v, w, &x) *)
DistSub(P, v, w) == zsl_vec_sub(DistLocal(P, v), v, w, 0)

(* the caller's vectors after the call: the local x is gone *)
DistPool(P, r) == [id \in DOMAIN P |-> r.vecs[id]]

(* the argument of sqrt() when the subtraction succeeds *)
DistSumOfSqrs(P, v, w) == zsl_vec_sum_of_sqrs(DistSub(P, v, w).vecs, 0).val

zsl_vec_dist_IgnoresRc(P, v, w) ==
    LET r == DistSub(P, v, w)
    IN  RetV(zsl_vec_magn(r.vecs, 0).val, DistPool(P, r), r.fault, FALSE, FALSE)

zsl_vec_dist(P, v, w) ==
    LET r == DistSub(P, v, w)
    IN  IF r.rc # 0 THEN RetV(NaN, DistPool(P, r), r.fault, FALSE, FALSE)
        ELSE RetV(zsl_vec_magn(r.vecs, 0).val, DistPool(P, r), r.fault,
                  FALSE, FALSE)

(* *m += v->data[i] *)
RECURSIVE ArMeanLoop(_, _, _, _)
ArMeanLoop(P, v, i, m) ==
    IF i < P[v].sz THEN ArMeanLoop(P, v, i + 1, RAdd(m, Get(P, v, i)))
    ELSE m

zsl_vec_ar_mean_ClearsFirst(P, v, m) ==
    IF P[v].sz < 1 THEN RetD(-EINVAL, P, R(0), FALSE, FALSE, FALSE)
    ELSE RetD(0, P, RDiv(ArMeanLoop(P, v, 0, R(0)), R(P[v].sz)),
              P[v].sz > P[v].cap, FALSE, TRUE)

zsl_vec_ar_mean(P, v, m) ==
    IF P[v].sz < 1 THEN RetD(-EINVAL, P, m, FALSE, FALSE, FALSE)
    ELSE RetD(0, P, RDiv(ArMeanLoop(P, v, 0, R(0)), R(P[v].sz)),
              P[v].sz > P[v].cap, FALSE, TRUE)

(* start and end are size_t: end = v->sz - 1 wraps for v->sz = 0 *)
RECURSIVE RevLoop(_, _, _, _)
RevLoop(P, v, start, end) ==
    IF start < end
    THEN LET t == Get(P, v, start)
             P1 == Put(P, v, start, Get(P, v, end))
         IN  RevLoop(Put(P1, v, end, t), v, start + 1, end - 1)
    ELSE P

RevEnd(P, v) == (P[v].sz - 1) % SizeMod

zsl_vec_rev(P, v) ==
    Ret(0, RevLoop(P, v, 0, RevEnd(P, v)),
        0 < RevEnd(P, v) /\ RevEnd(P, v) >= P[v].cap,
        0 < RevEnd(P, v) /\ RevEnd(P, v) >= P[v].sz, FALSE)

(* the loop returns false at the first i with v->data[i] != w->data[i] *)
RECURSIVE IsEqualLoop(_, _, _, _)
IsEqualLoop(P, v, w, i) ==
    IF i < P[v].sz
    THEN IF Get(P, v, i) # Get(P, w, i) THEN FALSE
         ELSE IsEqualLoop(P, v, w, i + 1)
    ELSE TRUE

zsl_vec_is_equal(P, v, w) ==
    IF P[v].sz # P[w].sz THEN RetB(FALSE, P, FALSE)
    ELSE RetB(IsEqualLoop(P, v, w, 0), P,
              P[v].sz > P[v].cap \/ P[v].sz > P[w].cap)

(* the loop returns false at the first i with v->data[i] < 0.0 *)
RECURSIVE IsNonnegLoop(_, _, _)
IsNonnegLoop(P, v, i) ==
    IF i < P[v].sz
    THEN IF Get(P, v, i)[1] < 0 THEN FALSE ELSE IsNonnegLoop(P, v, i + 1)
    ELSE TRUE

zsl_vec_is_nonneg(P, v) ==
    RetB(IsNonnegLoop(P, v, 0), P, P[v].sz > P[v].cap)

---------------------------------------------------------------------------
(* The matrix functions of matrices.h.  An outcome is the int returned,    *)
(* the matrices after the call, the value of *x and the pair of *i, *j.    *)
MRet(rc, M, x, ij) == [rc |-> rc, mtxs |-> M, d |-> x, ij |-> ij]
MtxLen(M, m) == M[m].sz_rows * M[m].sz_cols
MGet(M, m, i, j) == M[m].data[i * M[m].sz_cols + j + 1]

MtxSameShape_CountOnly(M, ma, mb) == MtxLen(M, ma) = MtxLen(M, mb)

MtxSameShape(M, ma, mb) ==
    /\ M[ma].sz_rows = M[mb].sz_rows
    /\ M[ma].sz_cols = M[mb].sz_cols

(* mc = ma + mb, element by element *)
MtxAddInto(M, ma, mb, mc) ==
    [M EXCEPT ![mc].data =
        [k \in 1 .. MtxLen(M, ma) |-> RAdd(M[ma].data[k], M[mb].data[k])]]

(* mc = ma - mb, element by element *)
MtxSubInto(M, ma, mb, mc) ==
    [M EXCEPT ![mc].data =
        [k \in 1 .. MtxLen(M, ma) |-> RSub(M[ma].data[k], M[mb].data[k])]]

zsl_mtx_add(M, ma, mb, mc, x, ij) ==
    IF ~MtxSameShape(M, ma, mb) \/ ~MtxSameShape(M, ma, mc)
    THEN MRet(-EINVAL, M, x, ij)
    ELSE MRet(0, MtxAddInto(M, ma, mb, mc), x, ij)

zsl_mtx_add_d(M, ma, mb, x, ij) ==
    IF ~MtxSameShape(M, ma, mb) THEN MRet(-EINVAL, M, x, ij)
    ELSE MRet(0, MtxAddInto(M, ma, mb, ma), x, ij)

zsl_mtx_sub(M, ma, mb, mc, x, ij) ==
    IF ~MtxSameShape(M, ma, mb) \/ ~MtxSameShape(M, ma, mc)
    THEN MRet(-EINVAL, M, x, ij)
    ELSE MRet(0, MtxSubInto(M, ma, mb, mc), x, ij)

zsl_mtx_sub_d(M, ma, mb, x, ij) ==
    IF ~MtxSameShape(M, ma, mb) THEN MRet(-EINVAL, M, x, ij)
    ELSE MRet(0, MtxSubInto(M, ma, mb, ma), x, ij)

(* the linear scans: the slot (0-based) of the extreme element found so    *)
(* far; a later element replaces it only when strictly smaller (larger)    *)
MinTakes_OrEqual(a, best) == ~RLt(best, a)

MinTakes(a, best) == RLt(a, best)

MaxTakes(a, best) == RLt(best, a)

RECURSIVE MinScan(_, _, _, _)
MinScan(M, m, k, best) ==
    IF k >= MtxLen(M, m) THEN best
    ELSE IF MinTakes(M[m].data[k + 1], M[m].data[best + 1])
         THEN MinScan(M, m, k + 1, k)
         ELSE MinScan(M, m, k + 1, best)

RECURSIVE MaxScan(_, _, _, _)
MaxScan(M, m, k, best) ==
    IF k >= MtxLen(M, m) THEN best
    ELSE IF MaxTakes(M[m].data[k + 1], M[m].data[best + 1])
         THEN MaxScan(M, m, k + 1, k)
         ELSE MaxScan(M, m, k + 1, best)

(* the (i, j) of a slot of the row-major buffer *)
RowCol(M, m, k) == <<k \div M[m].sz_cols, k % M[m].sz_cols>>

(* for a matrix of at least one element *)
zsl_mtx_min(M, m, x, ij) ==
    MRet(0, M, M[m].data[MinScan(M, m, 0, 0) + 1], ij)

zsl_mtx_max(M, m, x, ij) ==
    MRet(0, M, M[m].data[MaxScan(M, m, 0, 0) + 1], ij)

zsl_mtx_min_idx(M, m, x, ij) ==
    MRet(0, M, x, RowCol(M, m, MinScan(M, m, 0, 0)))

zsl_mtx_max_idx(M, m, x, ij) ==
    MRet(0, M, x, RowCol(M, m, MaxScan(M, m, 0, 0)))

---------------------------------------------------------------------------
(* The caller.  One behaviour is one library call made from some state of  *)
(* the caller's memory: the library keeps no state between calls.  last    *)
(* records the call (op "none": no call made yet), pre and dpre the        *)
(* caller's memory just before it.  When the call faulted (undefined       *)
(* behaviour) it may trap instead of returning: last.ret.                  *)
NoCall ==
    [op |-> "none", rc |-> 0, ret |-> TRUE, v |-> 0, w |-> 0, x |-> 0,
     vs |-> <<>>, n |-> 0, off |-> 0, len |-> 0, s |-> R(0), a |-> <<>>,
     div |-> FALSE, beyond |-> FALSE, val |-> R(0)]

Idle == last.op = "none"

Finish(r, d, call) ==
    /\ pre' = vecs
    /\ dpre' = dval
    /\ vecs' = r.vecs
    /\ dval' = d
    /\ fault' = r.fault
    /\ UNCHANGED <<mtxs, mpre, idx>>
    /\ \E returns \in (IF r.fault THEN BOOLEAN ELSE {TRUE}) :
          last' = [call EXCEPT !.rc = r.rc, !.ret = returns,
                               !.div = r.div, !.beyond = r.beyond]

CallInit(v) ==
    /\ Idle
    /\ Finish(zsl_vec_init(vecs, v), dval, [NoCall EXCEPT !.op = "init", !.v = v])

CallFromArr(v, a) ==
    /\ Idle
    /\ Finish(zsl_vec_from_arr(vecs, v, a), dval,
              [NoCall EXCEPT !.op = "from_arr", !.v = v, !.a = a])

(* memcpy needs source and destination not to overlap: v # vsub *)
CallGetSubset(v, offset, len, vsub) ==
    /\ Idle
    /\ v # vsub
    /\ Finish(zsl_vec_get_subset(vecs, v, offset, len, vsub), dval,
              [NoCall EXCEPT !.op = "get_subset", !.v = v, !.x = vsub,
                             !.off = offset, !.len = len])

CallAdd(v, w, x) ==
    /\ Idle
    /\ Finish(zsl_vec_add(vecs, v, w, x), dval,
              [NoCall EXCEPT !.op = "add", !.v = v, !.w = w, !.x = x])

CallSub(v, w, x) ==
    /\ Idle
    /\ Finish(zsl_vec_sub(vecs, v, w, x), dval,
              [NoCall EXCEPT !.op = "sub", !.v = v, !.w = w, !.x = x])

CallNeg(v) ==
    /\ Idle
    /\ Finish(zsl_vec_neg(vecs, v), dval, [NoCall EXCEPT !.op = "neg", !.v = v])

CallSum(vs, w) ==
    /\ Idle
    /\ Finish(zsl_vec_sum(vecs, vs, Len(vs), w), dval,
              [NoCall EXCEPT !.op = "sum", !.vs = vs, !.n = Len(vs), !.x = w])

CallScalarAdd(v, s) ==
    /\ Idle
    /\ Finish(zsl_vec_scalar_add(vecs, v, s), dval,
              [NoCall EXCEPT !.op = "scalar_add", !.v = v, !.s = s])

CallScalarMult(v, s) ==
    /\ Idle
    /\ Finish(zsl_vec_scalar_mult(vecs, v, s), dval,
              [NoCall EXCEPT !.op = "scalar_mult", !.v = v, !.s = s])

CallScalarDiv(v, s) ==
    /\ Idle
    /\ Finish(zsl_vec_scalar_div(vecs, v, s), dval,
              [NoCall EXCEPT !.op = "scalar_div", !.v = v, !.s = s])

CallDot(v, w) ==
    /\ Idle
    /\ LET r == zsl_vec_dot(vecs, v, w, dval)
       IN  Finish(r, r.d, [NoCall EXCEPT !.op = "dot", !.v = v, !.w = w])

(* sqrt() of the sum of squares must be a rational of the model *)
CallToUnit(v) ==
    /\ Idle
    /\ HasSqrt(NormSumLoop(vecs, v, 0, R(0)))
    /\ Finish(zsl_vec_to_unit(vecs, v), dval,
              [NoCall EXCEPT !.op = "to_unit", !.v = v])

CallCross(v, w, c) ==
    /\ Idle
    /\ Finish(zsl_vec_cross(vecs, v, w, c), dval,
              [NoCall EXCEPT !.op = "cross", !.v = v, !.w = w, !.x = c])

CallMean(vs, m) ==
    /\ Idle
    /\ Finish(zsl_vec_mean(vecs, vs, Len(vs), m), dval,
              [NoCall EXCEPT !.op = "mean", !.vs = vs, !.n = Len(vs), !.x = m])

CallRev(v) ==
    /\ Idle
    /\ Finish(zsl_vec_rev(vecs, v), dval, [NoCall EXCEPT !.op = "rev", !.v = v])

(* the functions that return a zsl_real_t: last.val is the value returned *)
CallMagn(v) ==
    /\ Idle
    /\ HasSqrt(zsl_vec_sum_of_sqrs(vecs, v).val)
    /\ LET r == zsl_vec_magn(vecs, v)
       IN  Finish(r, dval, [NoCall EXCEPT !.op = "magn", !.v = v, !.val = r.val])

CallDist(v, w) ==
    /\ Idle
    /\ DistSub(vecs, v, w).rc = 0 => HasSqrt(DistSumOfSqrs(vecs, v, w))
    /\ LET r == zsl_vec_dist(vecs, v, w)
       IN  Finish(r, dval,
                  [NoCall EXCEPT !.op = "dist", !.v = v, !.w = w, !.val = r.val])

CallNorm(v) ==
    /\ Idle
    /\ HasSqrt(NormSumLoop(vecs, v, 0, R(0)))
    /\ Finish(RetV(zsl_vec_norm(vecs, v), vecs, vecs[v].sz > vecs[v].cap,
                   FALSE, FALSE), dval,
              [NoCall EXCEPT !.op = "norm", !.v = v,
                             !.val = zsl_vec_norm(vecs, v)])

CallSumOfSqrs(v) ==
    /\ Idle
    /\ LET r == zsl_vec_sum_of_sqrs(vecs, v)
       IN  Finish(r, dval,
                  [NoCall EXCEPT !.op = "sum_of_sqrs", !.v = v, !.val = r.val])

CallArMean(v) ==
    /\ Idle
    /\ LET r == zsl_vec_ar_mean(vecs, v, dval)
       IN  Finish(r, r.d, [NoCall EXCEPT !.op = "ar_mean", !.v = v])

CallIsEqual(v, w) ==
    /\ Idle
    /\ Finish(zsl_vec_is_equal(vecs, v, w), dval,
              [NoCall EXCEPT !.op = "is_equal", !.v = v, !.w = w])

CallIsNonneg(v) ==
    /\ Idle
    /\ Finish(zsl_vec_is_nonneg(vecs, v), dval,
              [NoCall EXCEPT !.op = "is_nonneg", !.v = v])

(* a call of a matrix function: r is its outcome *)
MFinish(r, call) ==
    /\ mpre' = mtxs
    /\ mtxs' = r.mtxs
    /\ dpre' = dval
    /\ dval' = r.d
    /\ idx' = r.ij
    /\ pre' = vecs
    /\ last' = [call EXCEPT !.rc = r.rc]
    /\ UNCHANGED <<vecs, fault>>

CallMtxAdd(ma, mb, mc) ==
    /\ Idle
    /\ MFinish(zsl_mtx_add(mtxs, ma, mb, mc, dval, idx),
               [NoCall EXCEPT !.op = "mtx_add", !.v = ma, !.w = mb, !.x = mc])

CallMtxAddD(ma, mb) ==
    /\ Idle
    /\ MFinish(zsl_mtx_add_d(mtxs, ma, mb, dval, idx),
               [NoCall EXCEPT !.op = "mtx_add_d", !.v = ma, !.w = mb, !.x = ma])

CallMtxSub(ma, mb, mc) ==
    /\ Idle
    /\ MFinish(zsl_mtx_sub(mtxs, ma, mb, mc, dval, idx),
               [NoCall EXCEPT !.op = "mtx_sub", !.v = ma, !.w = mb, !.x = mc])

CallMtxSubD(ma, mb) ==
    /\ Idle
    /\ MFinish(zsl_mtx_sub_d(mtxs, ma, mb, dval, idx),
               [NoCall EXCEPT !.op = "mtx_sub_d", !.v = ma, !.w = mb, !.x = ma])

(* min, max, min_idx and max_idx are called on matrices of at least one    *)
(* element                                                                 *)
CallMtxMin(m) ==
    /\ Idle
    /\ MtxLen(mtxs, m) > 0
    /\ MFinish(zsl_mtx_min(mtxs, m, dval, idx),
               [NoCall EXCEPT !.op = "mtx_min", !.v = m])

CallMtxMax(m) ==
    /\ Idle
    /\ MtxLen(mtxs, m) > 0
    /\ MFinish(zsl_mtx_max(mtxs, m, dval, idx),
               [NoCall EXCEPT !.op = "mtx_max", !.v = m])

CallMtxMinIdx(m) ==
    /\ Idle
    /\ MtxLen(mtxs, m) > 0
    /\ MFinish(zsl_mtx_min_idx(mtxs, m, dval, idx),
               [NoCall EXCEPT !.op = "mtx_min_idx", !.v = m])

CallMtxMaxIdx(m) ==
    /\ Idle
    /\ MtxLen(mtxs, m) > 0
    /\ MFinish(zsl_mtx_max_idx(mtxs, m, dval, idx),
               [NoCall EXCEPT !.op = "mtx_max_idx", !.v = m])

---------------------------------------------------------------------------
(* The inputs. *)
Vals == {R(k) : k \in -1 .. MaxVal}
Scalars == Vals \cup {<<1, 2>>}
Shapes == {<<n, c>> : n \in 0 .. MaxCap, c \in 0 .. MaxCap} \ 
              {<<n, c>> \in (0 .. MaxCap) \X (0 .. MaxCap) : n > c}
Vec(n, c, dat) == [sz |-> n, cap |-> c, data |-> dat]

(* a buffer of c slots holding leftovers that tell the vectors apart *)
Leftover(id, c) == [i \in 1 .. c |-> R(3 * id + i)]
Zeros(c) == [i \in 1 .. c |-> R(0)]
(* a buffer of c slots holding a, a + b, a + 2b, ... *)
Ramp(a, b, c) == [i \in 1 .. c |-> R(a + b * (i - 1))]

(* any shape, leftover contents *)
VecsLeft(id) == {Vec(sh[1], sh[2], Leftover(id, sh[2])) : sh \in Shapes}
(* any shape, zero contents *)
VecsZero == {Vec(sh[1], sh[2], Zeros(sh[2])) : sh \in Shapes}
(* full buffers of c slots over Vals *)
VecsFull(c) == {Vec(c, c, dat) : dat \in [1 .. c -> Vals]}
(* lists of at most MaxN vectors; the same vector may be listed twice *)
Lists == UNION {[1 .. n -> VecIds] : n \in 0 .. MaxN}
(* offsets and lengths: the small ones and the largest size_t values *)
Sizes == (0 .. MaxCap + 1) \cup {SIZE_MAX - 1, SIZE_MAX}

(* a matrix of r rows and c columns over the buffer dat *)
Mtx(r, c, dat) == [sz_rows |-> r, sz_cols |-> c, data |-> dat]
Dims == 0 .. MaxDim
(* any shape, holding a + b*k in slot k *)
MtxsRamp ==
    {Mtx(r, c, Ramp(a, b, r * c)) : r \in Dims, c \in Dims,
                                   a \in {-1, 1}, b \in {0, 1}}
(* any shape, leftover contents *)
MtxsLeft(id) == {Mtx(r, c, Leftover(id, r * c)) : r \in Dims, c \in Dims}
(* any shape, every buffer over -1, 0 and MaxVal *)
MtxsFull ==
    UNION {{Mtx(r, c, dat) : dat \in [1 .. r * c -> {R(-1), R(0), R(MaxVal)}]} :
             r \in Dims, c \in Dims}
(* the matrices of a caller that calls vector functions only *)
MtxsIdle == [id \in MtxIds |-> Mtx(1, 1, Leftover(id, 1))]
(* the vectors of a caller that calls matrix functions only *)
VecsIdle == [id \in VecIds |-> Vec(1, 1, Leftover(id, 1))]

InitWith(pools, mpools) ==
    /\ vecs \in pools
    /\ pre = vecs
    /\ dval = <<7, 2>>
    /\ dpre = dval
    /\ last = NoCall
    /\ fault = FALSE
    /\ mtxs \in mpools
    /\ mpre = mtxs
    /\ idx = <<SIZE_MAX, SIZE_MAX>>

InitFrom(pools) == InitWith(pools, {MtxsIdle})

(* the pools whose vectors 1, 2, 3 are drawn from A, B, C *)
Pools(A, B, C) == {<<a, b, c>> : a \in A, b \in B, c \in C}

Init == InitFrom(Pools(VecsLeft(1), VecsLeft(2), VecsLeft(3)))

Next ==
    \/ \E v \in VecIds : CallInit(v)
    \/ \E v \in VecIds : \E a \in {Leftover(0, MaxCap)} : CallFromArr(v, a)
    \/ \E v, vsub \in VecIds : \E offset, len \in Sizes :
          CallGetSubset(v, offset, len, vsub)
    \/ \E v, w, x \in VecIds : CallAdd(v, w, x)
    \/ \E v, w, x \in VecIds : CallSub(v, w, x)
    \/ \E v \in VecIds : CallNeg(v)
    \/ \E vs \in Lists : \E w \in VecIds : CallSum(vs, w)
    \/ \E v \in VecIds : \E s \in Scalars : CallScalarAdd(v, s)
    \/ \E v \in VecIds : \E s \in Scalars : CallScalarMult(v, s)
    \/ \E v \in VecIds : \E s \in Scalars : CallScalarDiv(v, s)
    \/ \E v, w \in VecIds : CallDot(v, w)
    \/ \E v \in VecIds : CallToUnit(v)
    \/ \E v, w, c \in VecIds : CallCross(v, w, c)
    \/ \E vs \in Lists : \E m \in VecIds : CallMean(vs, m)
    \/ \E v \in VecIds : CallRev(v)
    \/ \E v \in VecIds : CallMagn(v)
    \/ \E v, w \in VecIds : CallDist(v, w)
    \/ \E v \in VecIds : CallNorm(v)
    \/ \E v \in VecIds : CallSumOfSqrs(v)
    \/ \E v \in VecIds : CallArMean(v)
    \/ \E v, w \in VecIds : CallIsEqual(v, w)
    \/ \E v \in VecIds : CallIsNonneg(v)
    \/ \E ma, mb, mc \in MtxIds : CallMtxAdd(ma, mb, mc)
    \/ \E ma, mb \in MtxIds : CallMtxAddD(ma, mb)
    \/ \E ma, mb, mc \in MtxIds : CallMtxSub(ma, mb, mc)
    \/ \E ma, mb \in MtxIds : CallMtxSubD(ma, mb)
    \/ \E m \in MtxIds : CallMtxMin(m)
    \/ \E m \in MtxIds : CallMtxMax(m)
    \/ \E m \in MtxIds : CallMtxMinIdx(m)
    \/ \E m \in MtxIds : CallMtxMaxIdx(m)

Spec == Init /\ [][Next]_vars

---------------------------------------------------------------------------
(* The same caller with the inputs of one family of functions.  Vector 3   *)
(* is the output; vectors 1 and 2 are the inputs.                          *)

(* full buffers of c slots holding a + b*i, a and b over -1 .. MaxVal *)
VecsRamp ==
    {Vec(c, c, Ramp(a, b, c)) : a \in -1 .. MaxVal, b \in -1 .. MaxVal,
                                c \in 0 .. MaxCap}

ArithIn(id) ==
    IF id = 1 THEN VecsRamp ELSE VecsLeft(id)
InitArith == InitFrom(Pools(ArithIn(1), ArithIn(2), ArithIn(3)))
ArithArgs == {<<1, 2, 3>>, <<2, 1, 3>>, <<1, 1, 3>>, <<1, 2, 1>>, <<3, 2, 1>>}
NextArith ==
    \/ \E t \in ArithArgs : CallAdd(t[1], t[2], t[3])
    \/ \E t \in ArithArgs : CallSub(t[1], t[2], t[3])
    \/ \E t \in ArithArgs : CallDot(t[1], t[2])
SpecArith == InitArith /\ [][NextArith]_vars

(* sum, mean and ar_mean: the output starts zeroed or with leftovers *)
ReduceIn(id) ==
    IF id = 3 THEN VecsLeft(3) \cup VecsZero ELSE VecsLeft(id)
InitReduce == InitFrom(Pools(ReduceIn(1), ReduceIn(2), ReduceIn(3)))
ListsIn == UNION {[1 .. n -> {1, 2}] : n \in 0 .. MaxN}
NextReduce ==
    \/ \E vs \in ListsIn : CallSum(vs, 3)
    \/ \E vs \in ListsIn : CallMean(vs, 3)
    \/ \E v \in VecIds : CallArMean(v)
SpecReduce == InitReduce /\ [][NextReduce]_vars

(* get_subset: every offset and len a size_t can hold *)
InitSubset == InitFrom(Pools(VecsLeft(1), VecsLeft(2), VecsLeft(3)))
NextSubset ==
    \E offset, len \in 0 .. SIZE_MAX : \E t \in {<<1, 2>>, <<2, 3>>} :
        CallGetSubset(t[1], offset, len, t[2])
SpecSubset == InitSubset /\ [][NextSubset]_vars

(* the in-place functions on vector 1 *)
InPlaceIn(id) ==
    IF id = 1
    THEN VecsRamp \cup VecsZero \cup VecsLeft(1)
             \cup UNION {VecsFull(c) : c \in 0 .. MaxCap}
    ELSE {Vec(MaxCap, MaxCap, Leftover(id, MaxCap))}
InitInPlace == InitFrom(Pools(InPlaceIn(1), InPlaceIn(2), InPlaceIn(3)))
NextInPlace ==
    \/ CallToUnit(1)
    \/ \E s \in Scalars : CallScalarDiv(1, s)
    \/ \E s \in Scalars : CallScalarMult(1, s)
    \/ \E s \in Scalars : CallScalarAdd(1, s)
    \/ CallNeg(1)
    \/ CallRev(1)
    \/ CallInit(1)
SpecInPlace == InitInPlace /\ [][NextInPlace]_vars

(* cross: 3-vectors over Vals, and every other shape *)
CrossIn(id) ==
    IF id = 3 THEN VecsLeft(3) ELSE VecsFull(3) \cup VecsLeft(id)
InitCross == InitFrom(Pools(CrossIn(1), CrossIn(2), CrossIn(3)))
CrossArgs == {<<1, 2, 3>>, <<2, 1, 3>>, <<1, 1, 3>>, <<1, 2, 1>>}
NextCross == \E t \in CrossArgs : CallCross(t[1], t[2], t[3])
SpecCross == InitCross /\ [][NextCross]_vars

(* the functions that only read their vectors; vectors 1 and 2 are the     *)
(* arguments                                                               *)
QueryIn(id) ==
    IF id = 1 THEN VecsLeft(1) \cup UNION {VecsFull(c) : c \in 0 .. MaxCap}
    ELSE IF id = 2 THEN VecsLeft(2) \cup VecsRamp
    ELSE {Vec(MaxCap, MaxCap, Leftover(id, MaxCap))}
InitQuery == InitFrom(Pools(QueryIn(1), QueryIn(2), QueryIn(3)))
QueryArgs == {<<1, 2>>, <<2, 1>>, <<1, 1>>}
NextQuery ==
    \/ \E t \in QueryArgs : CallDist(t[1], t[2])
    \/ \E t \in QueryArgs : CallIsEqual(t[1], t[2])
    \/ \E v \in {1, 2} : CallMagn(v)
    \/ \E v \in {1, 2} : CallNorm(v)
    \/ \E v \in {1, 2} : CallSumOfSqrs(v)
    \/ \E v \in {1, 2} : CallArMean(v)
    \/ \E v \in {1, 2} : CallIsNonneg(v)
SpecQuery == InitQuery /\ [][NextQuery]_vars

(* every vector function: vectors 1 and 2 are the inputs, vector 3 the     *)
(* output, vector 1 the argument of the in-place functions                 *)
FrameIn(id) ==
    IF id = 1
    THEN {Vec(c, c, Ramp(a, b, c)) : a \in {-1, MaxVal}, b \in {0, 1},
                                     c \in 0 .. MaxCap}
    ELSE VecsLeft(id)
InitFrame == InitFrom(Pools(FrameIn(1), FrameIn(2), FrameIn(3)))
FrameSizes == {0, 1, MaxCap, SIZE_MAX}
NextFrame ==
    \/ \E t \in {<<1, 2>>, <<2, 1>>, <<1, 1>>} : CallAdd(t[1], t[2], 3)
    \/ \E t \in {<<1, 2>>, <<2, 1>>, <<1, 1>>} : CallSub(t[1], t[2], 3)
    \/ \E t \in {<<1, 2>>, <<2, 1>>, <<1, 1>>} : CallCross(t[1], t[2], 3)
    \/ \E t \in QueryArgs : CallDot(t[1], t[2])
    \/ \E t \in QueryArgs : CallDist(t[1], t[2])
    \/ \E t \in QueryArgs : CallIsEqual(t[1], t[2])
    \/ \E vs \in ListsIn : CallSum(vs, 3)
    \/ \E vs \in ListsIn : CallMean(vs, 3)
    \/ \E offset, len \in FrameSizes : CallGetSubset(1, offset, len, 3)
    \/ \E v \in {1, 2} : CallNorm(v)
    \/ \E v \in {1, 2} : CallMagn(v)
    \/ \E v \in {1, 2} : CallSumOfSqrs(v)
    \/ \E v \in {1, 2} : CallArMean(v)
    \/ \E v \in {1, 2} : CallIsNonneg(v)
    \/ CallNeg(1)
    \/ \E s \in Scalars : CallScalarAdd(1, s)
    \/ \E s \in Scalars : CallScalarMult(1, s)
    \/ \E s \in Scalars : CallScalarDiv(1, s)
    \/ CallToUnit(1)
    \/ CallRev(1)
SpecFrame == InitFrame /\ [][NextFrame]_vars

(* the matrix functions: matrices 1 and 2 of any shape over ramps with     *)
(* matrix 3 of any shape, or matrix 1 over every buffer                    *)
MtxPools ==
    Pools(MtxsRamp, MtxsRamp, MtxsLeft(3))
        \cup Pools(MtxsFull, {Mtx(1, 1, Leftover(2, 1))},
                   {Mtx(1, 1, Leftover(3, 1))})
InitMtx == InitWith({VecsIdle}, MtxPools)
MtxArgs == {<<1, 2, 3>>, <<2, 1, 3>>, <<1, 1, 3>>, <<1, 2, 1>>, <<1, 2, 2>>}
NextMtx ==
    \/ \E t \in MtxArgs : CallMtxAdd(t[1], t[2], t[3])
    \/ \E t \in MtxArgs : CallMtxSub(t[1], t[2], t[3])
    \/ \E t \in {<<1, 2>>, <<2, 1>>, <<1, 1>>} : CallMtxAddD(t[1], t[2])
    \/ \E t \in {<<1, 2>>, <<2, 1>>, <<1, 1>>} : CallMtxSubD(t[1], t[2])
    \/ \E m \in {1, 2} : CallMtxMin(m)
    \/ \E m \in {1, 2} : CallMtxMax(m)
    \/ \E m \in {1, 2} : CallMtxMinIdx(m)
    \/ \E m \in {1, 2} : CallMtxMaxIdx(m)
SpecMtx == InitMtx /\ [][NextMtx]_vars

---------------------------------------------------------------------------
(* Properties.  lv, lw, lx: the vectors of the last call. *)
lv == last.v
lw == last.w
lx == last.x
Elem(P, v, i) == P[v].data[i + 1]
SameLen3(P, v, w, x) == P[v].sz = P[w].sz /\ P[w].sz = P[x].sz
Min(a, b) == IF a < b THEN a ELSE b

(* C1: zsl_vec_add and zsl_vec_sub return -EINVAL exactly when the lengths *)
(* of v, w and x are not all equal, zsl_vec_dot exactly when v.sz # w.sz;  *)
(* a rejected call leaves x (resp. *d) as it was, an accepted one          *)
(* returns 0.                                                              *)
C1_ShapeMismatchRejected ==
    /\ last.op \in {"add", "sub"} =>
          IF SameLen3(pre, lv, lw, lx)
          THEN last.rc = 0
          ELSE last.rc = -EINVAL /\ vecs[lx] = pre[lx]
    /\ last.op = "dot" =>
          IF pre[lv].sz = pre[lw].sz
          THEN last.rc = 0
          ELSE last.rc = -EINVAL /\ dval = dpre

(* add rejected only because of the output's length *)
C1_Witness ==
    /\ last.op = "add"
    /\ last.rc = -EINVAL
    /\ pre[lv].sz = pre[lw].sz
    /\ pre[lx].sz # pre[lv].sz
    /\ vecs[lx] = pre[lx]

(* C2: every vector's declared length stays at most the capacity of its    *)
(* buffer, whatever call was made.                                         *)
C2_SzWithinCap == \A id \in VecIds : vecs[id].sz <= vecs[id].cap

(* the sum over the list vs of element j *)
RECURSIVE ColSum(_, _, _, _)
ColSum(P, vs, k, j) ==
    IF k = 0 THEN R(0) ELSE RAdd(ColSum(P, vs, k - 1, j), Elem(P, vs[k], j))

CommonLen(P, vs) == \A i \in 1 .. Len(vs) : P[vs[i]].sz = P[vs[1]].sz

(* C3: for n >= 1 inputs of one length L (and an output buffer of at      *)
(* least L slots), zsl_vec_sum returns 0 and leaves w with length L and    *)
(* w[j] the sum of the v[i][j], whatever w's buffer held before.           *)
C3_SumIsElementwiseSum ==
    (/\ last.op = "sum"
     /\ last.n >= 1
     /\ CommonLen(pre, last.vs)
     /\ pre[last.vs[1]].sz <= pre[lx].cap)
    => /\ last.rc = 0
       /\ vecs[lx].sz = pre[last.vs[1]].sz
       /\ \A j \in 0 .. vecs[lx].sz - 1 :
             Elem(vecs, lx, j) = ColSum(pre, last.vs, last.n, j)

(* C4: for n >= 1 inputs of common length L and an output m of length L,   *)
(* zsl_vec_mean returns 0 and leaves m[j] = (sum of the v[i][j]) / n, a     *)
(* real division.  Stated for an output buffer that is zero before the     *)
(* call, where the accumulation of zsl_vec_sum (C3) adds nothing.          *)
C4_MeanIsRealDivision ==
    (/\ last.op = "mean"
     /\ last.n >= 1
     /\ CommonLen(pre, last.vs)
     /\ pre[lx].sz = pre[last.vs[1]].sz
     /\ pre[lx].data = Zeros(pre[lx].cap))
    => /\ last.rc = 0
       /\ \A j \in 0 .. vecs[lx].sz - 1 :
             Elem(vecs, lx, j) = RDiv(ColSum(pre, last.vs, last.n, j), R(last.n))

(* C5: zsl_vec_get_subset rejects offset >= v.sz; for offset < v.sz and    *)
(* any len, with k = min(len, v.sz - offset) and vsub.sz >= k, it returns  *)
(* 0, copies v[offset .. offset+k) into vsub[0 .. k), reads nothing at an  *)
(* index >= v.sz and sets vsub.sz to k.                                    *)
C5_SubsetTruncates ==
    last.op = "get_subset" =>
        IF last.off >= pre[lv].sz THEN last.rc = -EINVAL
        ELSE LET k == Min(last.len, pre[lv].sz - last.off)
             IN  pre[lx].sz >= k =>
                    /\ last.rc = 0
                    /\ vecs[lx].sz = k
                    /\ ~last.beyond
                    /\ \A i \in 0 .. k - 1 :
                          Elem(vecs, lx, i) = Elem(pre, lv, last.off + i)

AllZero(P, v) == \A i \in 0 .. P[v].sz - 1 : Elem(P, v, i) = R(0)

(* C6: on a vector of length n >= 1 whose elements are all zero,           *)
(* zsl_vec_to_unit divides nothing, returns 0 and leaves v[0] = 1, the     *)
(* other elements 0 and v.sz unchanged.                                    *)
C6_ZeroVectorToUnit ==
    (last.op = "to_unit" /\ pre[lv].sz >= 1 /\ AllZero(pre, lv))
    => /\ last.rc = 0
       /\ ~last.div
       /\ vecs[lv].sz = pre[lv].sz
       /\ Elem(vecs, lv, 0) = R(1)
       /\ \A i \in 1 .. vecs[lv].sz - 1 : Elem(vecs, lv, i) = R(0)

C6_Witness ==
    /\ last.op = "to_unit"
    /\ pre[lv].sz >= 2
    /\ AllZero(pre, lv)
    /\ Elem(vecs, lv, 0) = R(1)
    /\ Elem(vecs, lv, 1) = R(0)

(* C7: zsl_vec_scalar_div with s = 0 returns -EINVAL and leaves v as it    *)
(* was; with s # 0 it returns 0 and every element becomes v[i] / s, the    *)
(* number that times s is v[i].                                            *)
C7_ScalarDiv ==
    last.op = "scalar_div" =>
        IF last.s = R(0)
        THEN last.rc = -EINVAL /\ vecs = pre
        ELSE /\ last.rc = 0
             /\ vecs[lv].sz = pre[lv].sz
             /\ \A i \in 0 .. pre[lv].sz - 1 :
                   RMul(Elem(vecs, lv, i), last.s) = Elem(pre, lv, i)

(* a division that changes the vector: (.., 2, ..) / (1/2) *)
C7_Witness ==
    /\ last.op = "scalar_div"
    /\ last.s = <<1, 2>>
    /\ last.rc = 0
    /\ pre[lv].sz >= 2
    /\ \E i \in 0 .. pre[lv].sz - 1 :
          Elem(pre, lv, i) = R(1) /\ Elem(vecs, lv, i) = R(2)

All3(P, v, w, c) == P[v].sz = 3 /\ P[w].sz = 3 /\ P[c].sz = 3

(* C8: zsl_vec_cross returns 0 exactly when v, w and c all have length 3,  *)
(* and then, for distinct buffers, c = (v1*w2 - v2*w1, v2*w0 - v0*w2,      *)
(* v0*w1 - v1*w0); otherwise it returns -EINVAL and writes nothing.        *)
C8_Cross ==
    last.op = "cross" =>
        IF All3(pre, lv, lw, lx)
        THEN /\ last.rc = 0
             /\ lx \notin {lv, lw} =>
                   /\ Elem(vecs, lx, 0) =
                         RSub(RMul(Elem(pre, lv, 1), Elem(pre, lw, 2)),
                              RMul(Elem(pre, lv, 2), Elem(pre, lw, 1)))
                   /\ Elem(vecs, lx, 1) =
                         RSub(RMul(Elem(pre, lv, 2), Elem(pre, lw, 0)),
                              RMul(Elem(pre, lv, 0), Elem(pre, lw, 2)))
                   /\ Elem(vecs, lx, 2) =
                         RSub(RMul(Elem(pre, lv, 0), Elem(pre, lw, 1)),
                              RMul(Elem(pre, lv, 1), Elem(pre, lw, 0)))
        ELSE last.rc = -EINVAL /\ vecs = pre

(* three equal lengths other than 3 *)
C8_Witness ==
    /\ last.op = "cross"
    /\ last.rc = -EINVAL
    /\ SameLen3(pre, lv, lw, lx)
    /\ pre[lv].sz = 2
    /\ lx \notin {lv, lw}

(* C9: cross(v, w) equals cross(w, v) followed by neg, element for         *)
(* element.                                                                *)
C9_CrossAntiCommutes ==
    (last.op = "cross" /\ last.rc = 0 /\ lx \notin {lv, lw})
    => LET c2 == zsl_vec_cross(pre, lw, lv, lx).vecs
           n2 == zsl_vec_neg(c2, lx).vecs
       IN  \A i \in 0 .. 2 : Elem(vecs, lx, i) = Elem(n2, lx, i)

(* a cross product with a non-zero component *)
C9_Witness ==
    /\ last.op = "cross"
    /\ last.rc = 0
    /\ lx \notin {lv, lw}
    /\ lv # lw
    /\ Elem(vecs, lx, 1) # R(0)

(* the pool with a fresh zeroed vector 4 of length n *)
WithScratch(P, n) ==
    [id \in 1 .. 4 |-> IF id = 4 THEN Vec(n, n, Zeros(n)) ELSE P[id]]

(* C10: add(v, w, x) and add(w, v, y) give x == y, and add(v, w, x)        *)
(* followed by sub(x, w, y) gives y == v, element for element.             *)
C10_AddCommutesAndRoundTrips ==
    (last.op = "add" /\ last.rc = 0 /\ lx \notin {lv, lw})
    => LET n == pre[lv].sz
           y1 == zsl_vec_add(WithScratch(pre, n), lw, lv, 4)
           y2 == zsl_vec_sub(WithScratch(vecs, n), lx, lw, 4)
       IN  /\ y1.rc = 0
           /\ y2.rc = 0
           /\ \A i \in 0 .. n - 1 :
                 /\ Elem(vecs, lx, i) = Elem(y1.vecs, 4, i)
                 /\ Elem(y2.vecs, 4, i) = Elem(pre, lv, i)

C10_Witness ==
    /\ last.op = "add"
    /\ last.rc = 0
    /\ lx \notin {lv, lw}
    /\ lv # lw
    /\ pre[lv].sz >= 2
    /\ Elem(vecs, lx, 0) # Elem(pre, lv, 0)
    /\ Elem(pre, lv, 1) # Elem(pre, lw, 1)

(* the sum over i < n of (v[i] - w[i])^2 *)
RECURSIVE SqDiffSum(_, _, _, _)
SqDiffSum(P, v, w, n) ==
    IF n = 0 THEN R(0)
    ELSE LET d == RSub(Elem(P, v, n - 1), Elem(P, w, n - 1))
         IN  RAdd(SqDiffSum(P, v, w, n - 1), RMul(d, d))

(* C11: zsl_vec_dist returns the NaN sentinel whenever v.sz # w.sz; when   *)
(* the lengths are equal it returns the magnitude of v - w, never the      *)
(* sentinel; v and w are unchanged in both cases.                          *)
C11_DistSentinel ==
    last.op = "dist" =>
        /\ vecs = pre
        /\ IF pre[lv].sz # pre[lw].sz
           THEN last.val = NaN
           ELSE /\ last.val # NaN
                /\ last.val = RSqrt(SqDiffSum(pre, lv, lw, pre[lv].sz))

(* a non-zero distance between two different vectors of length >= 2 *)
C11_Witness ==
    /\ last.op = "dist"
    /\ lv # lw
    /\ pre[lv].sz = pre[lw].sz
    /\ pre[lv].sz >= 2
    /\ last.val # NaN
    /\ last.val[1] > 0
    /\ vecs = pre

(* C12: zsl_vec_sum with n = 0, or with an input whose length differs     *)
(* from the first input's, returns -EINVAL and leaves w unchanged;         *)
(* zsl_vec_ar_mean of a vector of length 0 returns -EINVAL and leaves *m   *)
(* unchanged.                                                              *)
C12_EmptyAndMismatchedRejected ==
    /\ (last.op = "sum" /\ (last.n = 0 \/ ~CommonLen(pre, last.vs)))
          => last.rc = -EINVAL /\ vecs = pre
    /\ (last.op = "ar_mean" /\ pre[lv].sz = 0)
          => last.rc = -EINVAL /\ dval = dpre /\ vecs = pre

(* two inputs of different lengths, the first as long as the output *)
C12_Witness ==
    /\ last.op = "sum"
    /\ last.n = 2
    /\ pre[last.vs[1]].sz # pre[last.vs[2]].sz
    /\ pre[last.vs[1]].sz = pre[lx].sz
    /\ pre[lx].sz > 0
    /\ last.rc = -EINVAL
    /\ vecs[lx] = pre[lx]

(* the functions that write a separate output, and the last call made     *)
(* again on the vectors it left                                            *)
OutputOps == {"add", "sub", "dot", "cross", "sum", "mean", "get_subset"}
Again(op) ==
    CASE op = "add" -> zsl_vec_add(vecs, lv, lw, lx)
      [] op = "sub" -> zsl_vec_sub(vecs, lv, lw, lx)
      [] op = "dot" -> zsl_vec_dot(vecs, lv, lw, dval)
      [] op = "cross" -> zsl_vec_cross(vecs, lv, lw, lx)
      [] op = "sum" -> zsl_vec_sum(vecs, last.vs, last.n, lx)
      [] op = "mean" -> zsl_vec_mean(vecs, last.vs, last.n, lx)
      [] op = "get_subset" ->
            zsl_vec_get_subset(vecs, lv, last.off, last.len, lx)
(* the output is none of the inputs *)
SeparateOutput ==
    CASE last.op \in {"add", "sub", "cross"} -> lx \notin {lv, lw}
      [] last.op \in {"sum", "mean"} ->
            \A i \in 1 .. last.n : last.vs[i] # lx
      [] last.op = "get_subset" -> lx # lv
      [] OTHER -> TRUE
AgainSame(op) ==
    LET r == Again(op)
    IN  ~r.fault =>
           /\ r.rc = last.rc
           /\ r.vecs = vecs
           /\ op = "dot" => r.d = dval

(* C13: add, sub, dot, cross, sum, mean and get_subset, called a second    *)
(* time with the same arguments (the output none of the inputs), return    *)
(* the same value and leave the output, length and contents, as the first  *)
(* call left it.                                                           *)
C13_Idempotent ==
    (last.op \in OutputOps /\ ~fault /\ SeparateOutput) => AgainSame(last.op)

(* the same, without sum and mean *)
C13_IdempotentButSumMean ==
    (last.op \in OutputOps \ {"sum", "mean"} /\ ~fault /\ SeparateOutput)
        => AgainSame(last.op)

(* the (i, j) of matrix m *)
Cells(M, m) == (0 .. M[m].sz_rows - 1) \X (0 .. M[m].sz_cols - 1)
ShapeOf(m) == <<mpre[m].sz_rows, mpre[m].sz_cols>>
OtherMtxsKept(m) == \A o \in MtxIds \ {m} : mtxs[o] = mpre[o]
ShapeKept(m) ==
    /\ mtxs[m].sz_rows = mpre[m].sz_rows
    /\ mtxs[m].sz_cols = mpre[m].sz_cols
    /\ Len(mtxs[m].data) = Len(mpre[m].data)
(* matrix lx now holds ma + mb (ma - mb) of the matrices before the call *)
IsSumOrDiff(op) ==
    \A c \in Cells(mpre, lv) :
        MGet(mtxs, lx, c[1], c[2]) =
            IF op \in {"mtx_add", "mtx_add_d"}
            THEN RAdd(MGet(mpre, lv, c[1], c[2]), MGet(mpre, lw, c[1], c[2]))
            ELSE RSub(MGet(mpre, lv, c[1], c[2]), MGet(mpre, lw, c[1], c[2]))

(* C14: zsl_mtx_add and zsl_mtx_sub return -EINVAL unless ma, mb and mc    *)
(* have one shape, and then leave mc = ma + mb (ma - mb) and every other   *)
(* matrix unchanged; zsl_mtx_add_d and zsl_mtx_sub_d need only ma and mb   *)
(* of one shape, leave the result in ma and mb unchanged; a rejected call  *)
(* changes no matrix.                                                      *)
C14_MtxAddSub ==
    /\ last.op \in {"mtx_add", "mtx_sub"} =>
          IF ShapeOf(lv) = ShapeOf(lw) /\ ShapeOf(lv) = ShapeOf(lx)
          THEN /\ last.rc = 0
               /\ ShapeKept(lx)
               /\ IsSumOrDiff(last.op)
               /\ OtherMtxsKept(lx)
          ELSE last.rc = -EINVAL /\ mtxs = mpre
    /\ last.op \in {"mtx_add_d", "mtx_sub_d"} =>
          IF ShapeOf(lv) = ShapeOf(lw)
          THEN /\ last.rc = 0
               /\ lx = lv
               /\ ShapeKept(lv)
               /\ IsSumOrDiff(last.op)
               /\ OtherMtxsKept(lv)
          ELSE last.rc = -EINVAL /\ mtxs = mpre

(* sub_d on two 2 x 2 matrices changes ma while the third matrix has       *)
(* another shape                                                           *)
C14_Witness ==
    /\ last.op = "mtx_sub_d"
    /\ last.rc = 0
    /\ lv # lw
    /\ mpre[lv].sz_rows = 2 /\ mpre[lv].sz_cols = 2
    /\ \E o \in MtxIds : ShapeOf(o) # ShapeOf(lv)
    /\ mtxs[lv] # mpre[lv]
    /\ mtxs[lw] = mpre[lw]

(* no element of m is smaller (larger) than e *)
IsLeast(m, e) == \A c \in Cells(mpre, m) : ~RLt(MGet(mpre, m, c[1], c[2]), e)
IsGreatest(m, e) == \A c \in Cells(mpre, m) : ~RLt(e, MGet(mpre, m, c[1], c[2]))
(* (i, j) is in range and no earlier (row-major) element of m equals its   *)
(* element                                                                 *)
InRange(m, ij) == ij[1] < mpre[m].sz_rows /\ ij[2] < mpre[m].sz_cols
IsFirst(m, ij) ==
    \A c \in Cells(mpre, m) :
        MGet(mpre, m, c[1], c[2]) = MGet(mpre, m, ij[1], ij[2])
            => c[1] > ij[1] \/ (c[1] = ij[1] /\ c[2] >= ij[2])

(* C15: on a matrix of at least one element zsl_mtx_min_idx (max_idx)      *)
(* returns an (i, j) in range whose element is the minimum (maximum) and   *)
(* is the first such element in row-major order; zsl_mtx_min (max)         *)
(* returns that value.                                                     *)
C15_MtxMinMax ==
    /\ last.op = "mtx_min_idx" =>
          /\ last.rc = 0
          /\ InRange(lv, idx)
          /\ IsLeast(lv, MGet(mpre, lv, idx[1], idx[2]))
          /\ IsFirst(lv, idx)
    /\ last.op = "mtx_max_idx" =>
          /\ last.rc = 0
          /\ InRange(lv, idx)
          /\ IsGreatest(lv, MGet(mpre, lv, idx[1], idx[2]))
          /\ IsFirst(lv, idx)
    /\ last.op = "mtx_min" =>
          /\ last.rc = 0
          /\ IsLeast(lv, dval)
          /\ \E c \in Cells(mpre, lv) : MGet(mpre, lv, c[1], c[2]) = dval
    /\ last.op = "mtx_max" =>
          /\ last.rc = 0
          /\ IsGreatest(lv, dval)
          /\ \E c \in Cells(mpre, lv) : MGet(mpre, lv, c[1], c[2]) = dval
    /\ last.op \in {"mtx_min", "mtx_max", "mtx_min_idx", "mtx_max_idx"}
          => mtxs = mpre

(* the minimum of a 2 x 2 matrix is not its first element and occurs twice *)
C15_Witness ==
    /\ last.op = "mtx_min_idx"
    /\ mpre[lv].sz_rows = 2 /\ mpre[lv].sz_cols = 2
    /\ idx = <<0, 1>>
    /\ MGet(mpre, lv, 1, 1) = MGet(mpre, lv, 0, 1)
    /\ RLt(MGet(mpre, lv, 0, 1), MGet(mpre, lv, 0, 0))

(* v is the reverse of what it was, and a second zsl_vec_rev restores it *)
Reversed(v) ==
    /\ last.ret
    /\ last.rc = 0
    /\ vecs[v].sz = pre[v].sz
    /\ \A i \in 0 .. pre[v].sz - 1 :
          Elem(vecs, v, i) = Elem(pre, v, pre[v].sz - 1 - i)
    /\ LET r == zsl_vec_rev(vecs, v)
       IN  ~r.fault /\ r.rc = 0 /\ r.vecs = pre

(* C16: for every v of length n >= 0 zsl_vec_rev stays inside v's buffer,  *)
(* returns 0, leaves v.sz unchanged and v'[i] = v[n-1-i] for all i < n,    *)
(* and a second zsl_vec_rev restores v.                                    *)
C16_Rev == last.op = "rev" => ~fault /\ Reversed(lv)

(* the same for n >= 1 *)
C16_RevNonEmpty ==
    (last.op = "rev" /\ pre[lv].sz >= 1) => ~fault /\ Reversed(lv)

(* C17: no vector function reads or writes a slot at an index >= the      *)
(* vector's declared length, also on vectors of length 0 and lists of no   *)
(* vectors (zsl_vec_rev, zsl_vec_to_unit with sz = 0, zsl_vec_mean with    *)
(* n = 0).                                                                 *)
C17_NoAccessBeyondLength == ~last.beyond

(* the functions that write no vector, those that write the output lx,    *)
(* and those that work in place on lv                                      *)
ReadOnlyOps ==
    {"dot", "dist", "norm", "magn", "sum_of_sqrs", "ar_mean", "is_equal",
     "is_nonneg"}
WriteOutputOps == {"add", "sub", "cross", "sum", "mean", "get_subset"}
InPlaceOps == {"neg", "scalar_add", "scalar_mult", "scalar_div", "to_unit", "rev"}
KeptBut(id) == \A o \in VecIds \ {id} : vecs[o] = pre[o]

====
